---- MODULE Spec2Model ----
(***************************************************************************)
(* Helpdesk / asset management server (src/server/server.js), its schema   *)
(* (src/unnamed/part_001) and the user-management client                   *)
(* (src/unnamed/part_003), as a state machine over the relational tables.  *)
(***************************************************************************)
EXTENDS Integers, Sequences, FiniteSets, Bags, TLC

\* ------------------------------------------------------------------ bounds
MaxTickets == 1
MaxNotifs == 3
MaxSelected == 2
MaxEquipment == 1
MaxNewUsers == 1
MaxComments == 2
MaxShown == 3

\* ---------------------------------------------------------------- schema
\* SQL NULL in an INT column, also what JS sees as a falsy id (undefined, null, 0)
NULL == 0

\* a body field that is absent (undefined)
Undefined == -1

Roles == {"admin", "it_personnel", "employee"}

TicketStatuses == {"Ouvert", "En cours", "Résolu", "Fermé", "Escaladé", "En attente"}

Priorities == {"Basse", "Normale", "Haute", "Urgente"}

EquipmentStatuses == {"Disponible", "En utilisation", "En panne", "En maintenance", "Retiré"}

\* the default departments inserted by the schema script
SeedDepartments == {1, 2, 3, 4}

\* the three default users of the schema script, and one employee of
\* department 3 registered through /api/auth/register
InitUsers ==
    (1 :> [role |-> "admin", department_id |-> 1]) @@
    (2 :> [role |-> "it_personnel", department_id |-> 1]) @@
    (3 :> [role |-> "employee", department_id |-> 2]) @@
    (4 :> [role |-> "employee", department_id |-> 3])

VARIABLES
    db,             \* the database: a record of the tables and their AUTO_INCREMENT counters
    tokens,         \* JWT payloads {id, role} issued so far
    req,            \* the request handled last
    res,            \* the response sent to it
    inflight,       \* the delete-department request that is between two of its statements
    currentUser,    \* the client's logged-in user (the payload of its token)
    stateUsers,     \* AppProvider: ids of state.users
    selectedUsers,  \* UserManagement: the checked rows
    showBulkDeleteModal, \* UserManagement: the confirmation dialog is open
    isDeleting,     \* UserManagement: confirmBulkDelete is running
    bulkTodo,       \* confirmBulkDelete: ids of its selectedUsers the loop has still to visit
    bulkVisited,    \* confirmBulkDelete: ids the loop has visited
    consoleErrors,  \* ids in the 'Delete user error' lines AppProvider.deleteUser logged
    shown,          \* the message of the notification shown last
    notificationState \* NotificationProvider: the reducer's state

clientVars ==
    <<currentUser, stateUsers, selectedUsers, showBulkDeleteModal, isDeleting,
      bulkTodo, bulkVisited, consoleErrors, shown, notificationState>>

vars == <<db, tokens, req, res, inflight, clientVars>>

\* ------------------------------------------------------- parameter parsing
Digits == <<"0", "1", "2", "3", "4", "5", "6", "7", "8", "9">>

IsDigit(c) == \E i \in 1..10 : Digits[i] = c

DigitVal(c) == (CHOOSE i \in 1..10 : Digits[i] = c) - 1

\* the longest prefix of s made of digits
RECURSIVE DigitPrefix(_)
DigitPrefix(s) ==
    IF s = <<>> \/ ~IsDigit(Head(s)) THEN <<>>
    ELSE <<Head(s)>> \o DigitPrefix(Tail(s))

RECURSIVE DecVal(_)
DecVal(ds) ==
    IF ds = <<>> THEN 0
    ELSE 10 * DecVal(SubSeq(ds, 1, Len(ds) - 1)) + DigitVal(ds[Len(ds)])

RECURSIVE Pow10(_)
Pow10(n) == IF n <= 0 THEN 1 ELSE 10 * Pow10(n - 1)

Drop(s, n) == SubSeq(s, n + 1, Len(s))

RECURSIVE SkipSpaces(_)
SkipSpaces(s) ==
    IF s # <<>> /\ Head(s) = " " THEN SkipSpaces(Tail(s)) ELSE s

\* JS parseInt(string) in radix 10: leading white space and one sign are
\* skipped, then the longest run of digits is read and the rest is ignored;
\* <<>> stands for NaN, <<n>> for the number n (no parameter of the model
\* starts with 0x, the one prefix that would switch the radix)
ParseInt(s) ==
    LET t == SkipSpaces(s)
        neg == t # <<>> /\ Head(t) = "-"
        u == IF t # <<>> /\ Head(t) \in {"-", "+"} THEN Tail(t) ELSE t
        ds == DigitPrefix(u)
    IN  IF ds = <<>> THEN <<>>
        ELSE <<IF neg THEN 0 - DecVal(ds) ELSE DecVal(ds)>>

\* The id an INT column is matched against by `WHERE id = ?` when the
\* parameter is a string: MySQL compares the two as floating-point numbers,
\* so the string is read as digits [. digits] [e [sign] digits]. The result
\* is the integer k with k = value(s), or NULL when the value is no positive
\* integer (no AUTO_INCREMENT id equals it).
SqlId(s) ==
    LET ip == DigitPrefix(s)
        r1 == Drop(s, Len(ip))
        fp == IF r1 # <<>> /\ Head(r1) = "." THEN DigitPrefix(Tail(r1)) ELSE <<>>
        r2 == IF r1 # <<>> /\ Head(r1) = "." THEN Drop(r1, 1 + Len(fp)) ELSE r1
        hasE == Len(r2) >= 2 /\ Head(r2) \in {"e", "E"}
                /\ (IsDigit(r2[2]) \/ (Len(r2) >= 3 /\ r2[2] \in {"-", "+"} /\ IsDigit(r2[3])))
        eneg == hasE /\ r2[2] = "-"
        r3 == IF hasE THEN (IF r2[2] \in {"-", "+"} THEN Drop(r2, 2) ELSE Drop(r2, 1)) ELSE <<>>
        ex == DecVal(DigitPrefix(r3))
        mant == DecVal(ip \o fp)
        \* value = mant * 10^(e - |fp|)  with e = +-ex
        up == (IF eneg THEN 0 ELSE ex)
        down == Len(fp) + (IF eneg THEN ex ELSE 0)
        num == mant * Pow10(up)
        den == Pow10(down)
    IN  IF ip \o fp = <<>> THEN NULL
        ELSE IF num % den = 0 THEN num \div den ELSE NULL

\* String(id): how the client writes an id into the URL
IdString(n) == <<Digits[n + 1]>>

\* ----------------------------------------------------------- notifications
NotificationRow(uid, title) == [user_id |-> uid, title |-> title, read |-> FALSE]

\* the rows one INSERT per element of userIds adds (a repeated id adds a row each time)
RECURSIVE RowsFor(_, _)
RowsFor(userIds, title) ==
    IF userIds = <<>> THEN EmptyBag
    ELSE SetToBag({NotificationRow(Head(userIds), title)}) (+) RowsFor(Tail(userIds), title)

\* the INSERTs of a fan-out that run: all of them, or those before the one
\* the database rejects while d.fault is on
Persisted(d, userIds) ==
    IF d.fault.on /\ Len(userIds) > d.fault.after
    THEN SubSeq(userIds, 1, d.fault.after)
    ELSE userIds

\* a helper without its try/catch: the rejected INSERT's exception reaches the
\* handler (the variant NotificationsBestEffort must reject)
createNotificationsUncaught(d, userIds, title) ==
    [d EXCEPT !.notifications = @ (+) RowsFor(Persisted(d, userIds), title),
              !.thrown = Persisted(d, userIds) # userIds]

\* the loop of INSERTs inside try/catch: a rejected INSERT ends the loop and
\* is logged
createNotificationsForUsers(d, userIds, title) ==
    [d EXCEPT !.notifications = @ (+) RowsFor(Persisted(d, userIds), title)]

\* a set of ids as the list a SELECT returns (ascending id)
RECURSIVE SetToSeq(_)
SetToSeq(S) ==
    IF S = {} THEN <<>>
    ELSE LET m == CHOOSE x \in S : \A y \in S : x <= y
         IN  <<m>> \o SetToSeq(S \ {m})

\* ------------------------------------------------------------ requests
NoBody ==
    [name |-> "", role |-> "", created_by |-> NULL, department_id |-> NULL, target_department_id |-> NULL,
     priority |-> "", status |-> "", assigned_to |-> NULL, userId |-> NULL,
     commentId |-> "", content |-> ""]

Request(op, p, id, body) ==
    [op |-> op, user |-> p.id, role |-> p.role, id |-> id, body |-> body]

\* what a handler leaves behind: the database after it and the response it
\* sent, which is the 500 of the handler's catch when an exception reached it
Reply(d, status, error, rows) ==
    IF d.thrown
    THEN [db |-> [d EXCEPT !.thrown = FALSE],
          res |-> [status |-> 500, error |-> "Internal server error", rows |-> {}]]
    ELSE [db |-> d, res |-> [status |-> status, error |-> error, rows |-> rows]]

\* ------------------------------------------------- notification routes
\* GET /api/notifications
getNotifications(d, p) ==
    Reply(d, 200, "", {n \in BagToSet(d.notifications) : n.user_id = p.id})

\* a SELECT without the user_id condition (the variant NotificationOwnership
\* must reject)
ExistingNotificationsOfAnyUser(d, p, named) ==
    {n \in BagToSet(d.notifications) : n = named}

\* SELECT id FROM notifications WHERE id = ? AND user_id = ?, the id given as
\* the row it names
ExistingNotifications(d, p, named) ==
    {n \in BagToSet(d.notifications) : n = named /\ n.user_id = p.id}

\* PUT /api/notifications/:id/read
markNotificationRead(d, p, named) ==
    IF ExistingNotifications(d, p, named) = {}
    THEN Reply(d, 404, "Notification not found", {})
    ELSE Reply([d EXCEPT !.notifications =
                    (@ (-) SetToBag({named})) (+) SetToBag({[named EXCEPT !.read = TRUE]})],
               200, "", {})

\* DELETE /api/notifications/:id
deleteNotification(d, p, named) ==
    IF ExistingNotifications(d, p, named) = {}
    THEN Reply(d, 404, "Notification not found", {})
    ELSE Reply([d EXCEPT !.notifications = @ (-) SetToBag({named})], 200, "", {})

\* ------------------------------------------------------------- tickets
\* a filter that keeps the creator (the variant TicketCreatedOnceNotCreator
\* must reject)
TicketCreatedRecipientsWithCreator(allUsers, createdTicket) ==
    {u \in DOMAIN allUsers :
        \/ allUsers[u].role = "admin" \/ allUsers[u].role = "it_personnel"
        \/ (createdTicket.target_department_id # NULL
              /\ allUsers[u].department_id = createdTicket.target_department_id)
        \/ (createdTicket.department_id # NULL
              /\ allUsers[u].department_id = createdTicket.department_id)}

\* recipients of 'Nouveau ticket créé': the filter over allUsers, then minus the creator
TicketCreatedRecipients(allUsers, createdTicket) ==
    {u \in DOMAIN allUsers :
        /\ \/ allUsers[u].role = "admin" \/ allUsers[u].role = "it_personnel"
           \/ (createdTicket.target_department_id # NULL
                 /\ allUsers[u].department_id = createdTicket.target_department_id)
           \/ (createdTicket.department_id # NULL
                 /\ allUsers[u].department_id = createdTicket.department_id)
        /\ u # createdTicket.created_by}

\* the row INSERT INTO tickets (..., priority, status, created_by, assigned_to,
\* equipment_id) stores: the two department columns are not in the column list
\* and take their default
InsertedTicket(body) ==
    [created_by |-> body.created_by, assigned_to |-> body.assigned_to,
     status |-> body.status, priority |-> body.priority,
     department_id |-> NULL, target_department_id |-> NULL]

\* a handler that takes any created_by (the variant TicketAttribution must reject)
CreatedByOtherAllowed(body, p) == FALSE

\* Number(created_by) !== req.user.id
CreatedByOther(body, p) == body.created_by # p.id

\* POST /api/tickets
createTicket(d, p, body) ==
    IF body.created_by = NULL \/ body.priority = "" \/ body.status = ""
    THEN Reply(d, 400, "Missing required fields", {})
    ELSE IF CreatedByOther(body, p)
    THEN Reply(d, 400, "You can only create tickets for yourself", {})
    ELSE IF body.created_by \notin DOMAIN d.users
    THEN Reply(d, 400, "User not found", {})
    ELSE IF body.assigned_to # NULL /\ body.assigned_to \notin DOMAIN d.users
    THEN Reply(d, 400, "Assignee not found", {})
    ELSE LET id == d.nextTicketId
             createdTicket == InsertedTicket(body)
             inserted == [d EXCEPT !.tickets = @ @@ (id :> createdTicket),
                                   !.nextTicketId = @ + 1]
             recipients == SetToSeq(TicketCreatedRecipients(d.users, createdTicket))
         IN  Reply(createNotificationsForUsers(inserted, recipients, "Nouveau ticket créé"),
                   201, "", {id})

\* PUT /api/tickets/:id/assign
assignTicket(d, p, param, userId) ==
    LET ticketId == SqlId(param) IN
    IF ticketId \notin DOMAIN d.tickets
    THEN Reply(d, 404, "Ticket not found", {})
    ELSE IF userId # NULL /\ userId \notin DOMAIN d.users
    THEN Reply(d, 404, "User not found", {})
    ELSE IF userId # NULL /\ d.users[userId].role = "employee"
    THEN Reply(d, 403, "Employees cannot be assigned to tickets", {})
    ELSE LET updated == [d EXCEPT !.tickets[ticketId].assigned_to = userId,
                                  !.tickets[ticketId].status =
                                      IF userId # NULL THEN "En cours" ELSE "Ouvert"]
         IN  Reply(IF userId # NULL
                   THEN createNotificationsForUsers(updated, <<userId>>, "Ticket assigné")
                   ELSE updated,
                   200, "", {ticketId})

\* PUT /api/tickets/:id: the UPDATE sets the fields the body has; it is a
\* syntax error with none of them, and the ENUM columns and the foreign key
\* of assigned_to reject other values (500). With no such ticket no row
\* changes and the answer is still 200. A given status notifies the creator
\* and the assignee.
updateTicket(d, p, param, body) ==
    LET ticketId == SqlId(param)
        assigned_to == IF body.assigned_to = Undefined THEN Undefined
                       ELSE body.assigned_to
    IN  IF body.status = "" /\ body.priority = "" /\ assigned_to = Undefined
        THEN Reply(d, 500, "Internal server error", {})
        ELSE IF \/ (body.status # "" /\ body.status \notin TicketStatuses)
                \/ (body.priority # "" /\ body.priority \notin Priorities)
                \/ (assigned_to \notin {Undefined, NULL} /\ assigned_to \notin DOMAIN d.users)
        THEN Reply(d, 500, "Internal server error", {})
        ELSE IF ticketId \notin DOMAIN d.tickets
        THEN Reply(d, 200, "", {})
        ELSE LET old == d.tickets[ticketId]
                 updated ==
                     [old EXCEPT
                         !.status = IF body.status # "" THEN body.status ELSE @,
                         !.assigned_to = IF assigned_to # Undefined THEN assigned_to ELSE @,
                         !.priority = IF body.priority # "" THEN body.priority ELSE @]
                 stored == [d EXCEPT !.tickets[ticketId] = updated]
                 recipients == SelectSeq(<<updated.created_by, updated.assigned_to>>,
                                         LAMBDA v : v # NULL)
             IN  Reply(IF body.status # ""
                       THEN createNotificationsForUsers(stored, recipients,
                                                        "Statut du ticket modifié")
                       ELSE stored,
                       200, "", {ticketId})

\* the columns PUT /api/tickets/:id/close selects: id, title, status, created_by
CloseSelect(row) == [status |-> row.status, created_by |-> row.created_by]

\* a column of a selected row; a column that was not selected reads as undefined
Column(row, name) == IF name \in DOMAIN row THEN row[name] ELSE NULL

\* the close handler's guard, on the row it selected
CloseDenied(p, ticket) ==
    /\ p.role # "admin"
    /\ Column(ticket, "created_by") # p.id
    /\ Column(ticket, "assigned_to") # p.id

\* PUT /api/tickets/:id/close
closeTicket(d, p, param) ==
    LET ticketId == SqlId(param) IN
    IF ticketId \notin DOMAIN d.tickets
    THEN Reply(d, 404, "Ticket not found", {})
    ELSE IF CloseDenied(p, CloseSelect(d.tickets[ticketId]))
    THEN Reply(d, 403, "You can only close tickets you created or are assigned to", {})
    ELSE Reply([d EXCEPT !.tickets[ticketId].status = "Fermé"], 200, "", {ticketId})

\* a handler without the role check (the variant EscalateByRole must reject)
EscalateDeniedNobody(p) == FALSE

\* the escalate handler's role check
EscalateDenied(p) == p.role = "employee"

\* a step that stops at Haute (the variant EscalationStep must reject)
EscalatePriorityStopsAtHaute(priority) ==
    IF priority = "Basse" THEN "Normale"
    ELSE IF priority = "Normale" THEN "Haute"
    ELSE priority

\* the priority step of the escalate handler
EscalatePriority(priority) ==
    IF priority = "Basse" THEN "Normale"
    ELSE IF priority = "Normale" THEN "Haute"
    ELSE IF priority = "Haute" THEN "Urgente"
    ELSE priority

\* PUT /api/tickets/:id/escalate
escalateTicket(d, p, param) ==
    LET ticketId == SqlId(param) IN
    IF ticketId \notin DOMAIN d.tickets
    THEN Reply(d, 404, "Ticket not found", {})
    ELSE IF EscalateDenied(p)
    THEN Reply(d, 403, "Employees cannot escalate tickets", {})
    ELSE Reply([d EXCEPT !.tickets[ticketId].priority = EscalatePriority(@),
                         !.tickets[ticketId].status = "Escaladé"],
               200, "", {ticketId})

\* a scope that also shows an employee the tickets assigned to them (the
\* variant TicketListByRole must reject)
TicketListScopeWithAssigned(p, ticket) ==
    p.role = "employee" => (ticket.created_by = p.id \/ ticket.assigned_to = p.id)

\* the WHERE clause of GET /api/tickets
TicketListScope(p, ticket) == p.role = "employee" => ticket.created_by = p.id

\* GET /api/tickets
getTickets(d, p) ==
    Reply(d, 200, "", {t \in DOMAIN d.tickets : TicketListScope(p, d.tickets[t])})

\* a guard that lets nobody but an admin delete (the variant
\* DeleteTicketByAdminOrCreator must reject)
DeleteTicketDeniedToCreator(p, ticket) == p.role # "admin"

\* the guard of DELETE /api/tickets/:id
DeleteTicketDenied(p, ticket) == p.role # "admin" /\ ticket.created_by # p.id

\* DELETE FROM tickets WHERE id = ?, with fk_ticket_comments_ticket ON DELETE CASCADE
DeleteTicketRow(d, ticketId) ==
    [d EXCEPT
        !.tickets = [t \in DOMAIN @ \ {ticketId} |-> @[t]],
        !.comments = [c \in {x \in DOMAIN @ : @[x].ticket_id # ticketId} |-> @[c]]]

\* DELETE /api/tickets/:id
deleteTicket(d, p, param) ==
    LET ticketId == SqlId(param) IN
    IF ticketId \notin DOMAIN d.tickets
    THEN Reply(d, 404, "Ticket not found", {})
    ELSE IF DeleteTicketDenied(p, d.tickets[ticketId])
    THEN Reply(d, 403, "You can only delete your own tickets", {})
    ELSE Reply(DeleteTicketRow(d, ticketId), 200, "", {})

\* GET /api/tickets/:id
getTicket(d, p, param) ==
    LET ticketId == SqlId(param) IN
    IF ticketId \notin DOMAIN d.tickets
    THEN Reply(d, 404, "Ticket not found", {})
    ELSE Reply(d, 200, "", {ticketId})

\* ------------------------------------------------------------- comments
\* GET /api/tickets/:id/comments: the comments of the ticket whose author
\* row exists (JOIN users)
getComments(d, p, param) ==
    Reply(d, 200, "",
          {c \in DOMAIN d.comments :
              d.comments[c].ticket_id = SqlId(param) /\ d.comments[c].author_id \in DOMAIN d.users})

\* POST /api/tickets/:id/comments: the INSERT fails on either foreign key
\* (no such ticket, or a token whose user row is gone); the ticket's creator
\* and assignee, except the author, are notified
addComment(d, p, param, body) ==
    LET ticketId == SqlId(param) IN
    IF ticketId \notin DOMAIN d.tickets \/ p.id \notin DOMAIN d.users
    THEN Reply(d, 500, "Internal server error", {})
    ELSE LET commentId == d.nextCommentId
             inserted == [d EXCEPT
                 !.comments = [c \in DOMAIN @ \cup {commentId} |->
                                 IF c = commentId
                                 THEN [ticket_id |-> ticketId, content |-> body.content,
                                       author_id |-> p.id]
                                 ELSE @[c]],
                 !.nextCommentId = @ + 1]
             t == d.tickets[ticketId]
             recipients == SelectSeq(<<t.created_by, t.assigned_to>>,
                                     LAMBDA v : v # NULL /\ v # p.id)
         IN  Reply(createNotificationsForUsers(inserted, recipients, "Nouveau commentaire"),
                   201, "", {commentId})

\* SELECT id, author_id FROM ticket_comments WHERE id = ? AND ticket_id = ?
ExistingComments(d, ticketParam, commentParam) ==
    {c \in DOMAIN d.comments : c = SqlId(commentParam) /\ d.comments[c].ticket_id = SqlId(ticketParam)}

\* a guard that lets any authenticated user through (the variant
\* CommentChangeByAdminOrAuthor must reject)
CommentDeniedNobody(p, comment) == FALSE

\* the guard of PUT and DELETE /api/tickets/:id/comments/:commentId
CommentDenied(p, comment) == p.role # "admin" /\ comment.author_id # p.id

\* PUT /api/tickets/:id/comments/:commentId
updateComment(d, p, ticketParam, commentParam, body) ==
    IF ExistingComments(d, ticketParam, commentParam) = {}
    THEN Reply(d, 404, "Comment not found", {})
    ELSE LET commentId == SqlId(commentParam) IN
         IF CommentDenied(p, d.comments[commentId])
         THEN Reply(d, 403, "You can only edit your own comments", {})
         ELSE Reply([d EXCEPT !.comments[commentId].content = body.content],
                    200, "", {commentId})

\* DELETE /api/tickets/:id/comments/:commentId
deleteComment(d, p, ticketParam, commentParam) ==
    IF ExistingComments(d, ticketParam, commentParam) = {}
    THEN Reply(d, 404, "Comment not found", {})
    ELSE LET commentId == SqlId(commentParam) IN
         IF CommentDenied(p, d.comments[commentId])
         THEN Reply(d, 403, "You can only delete your own comments", {})
         ELSE Reply([d EXCEPT !.comments = [c \in DOMAIN @ \ {commentId} |-> @[c]]],
                    200, "", {})

\* --------------------------------------------------------------- users
\* GET /api/users
getUsers(d) == Reply(d, 200, "", DOMAIN d.users)

\* parseInt(userId) === req.user.id
IsOwnAccount(param, p) == ParseInt(param) = <<p.id>>

\* DELETE FROM users WHERE id = userId with the schema's foreign keys:
\* tickets.created_by and notifications.user_id ON DELETE CASCADE,
\* tickets.assigned_to and equipment.assigned_to_id ON DELETE SET NULL
DeleteUserRow(d, userId) ==
    [d EXCEPT
        !.users = [u \in DOMAIN @ \ {userId} |-> @[u]],
        !.tickets = [t \in {x \in DOMAIN @ : @[x].created_by # userId} |->
                        IF @[t].assigned_to = userId
                        THEN [@[t] EXCEPT !.assigned_to = NULL] ELSE @[t]],
        !.equipment = [e \in DOMAIN @ |->
                        IF @[e].assigned_to_id = userId
                        THEN [@[e] EXCEPT !.assigned_to_id = NULL] ELSE @[e]],
        !.comments = [c \in {x \in DOMAIN @ :
                                 /\ @[x].author_id # userId
                                 /\ d.tickets[@[x].ticket_id].created_by # userId} |-> @[c]],
        !.notifications = [n \in {x \in DOMAIN @ : x.user_id # userId} |-> @[n]]]

\* DELETE /api/users/:id
deleteUser(d, p, param) ==
    IF IsOwnAccount(param, p)
    THEN Reply(d, 400, "Cannot delete your own account", {})
    ELSE IF p.role # "admin"
    THEN Reply(d, 403, "Only admins can delete users", {})
    ELSE IF SqlId(param) \notin DOMAIN d.users
    THEN Reply(d, 404, "User not found", {})
    ELSE LET deleted == DeleteUserRow(d, SqlId(param))
             admins == SetToSeq({u \in DOMAIN deleted.users : deleted.users[u].role = "admin"})
         IN  Reply(createNotificationsForUsers(deleted, admins, "Utilisateur supprimé"),
                   200, "", {})

\* INSERT INTO users (..., role, department_id): the row and its AUTO_INCREMENT id
InsertUser(d, role, department_id) ==
    [d EXCEPT !.users = @ @@ (d.nextUserId :> [role |-> role, department_id |-> department_id]),
              !.nextUserId = @ + 1]

\* POST /api/users: the required fields (name, email and password are given
\* when body.name is), then the INSERT, which the role ENUM and the foreign
\* key of department_id can reject, then the notification of the admins
createUser(d, p, body) ==
    IF body.name = "" \/ body.role = ""
    THEN Reply(d, 400, "Missing required fields", {})
    ELSE IF body.role \notin Roles
            \/ (body.department_id # NULL /\ body.department_id \notin d.departments)
    THEN Reply(d, 500, "Internal server error", {})
    ELSE LET inserted == InsertUser(d, body.role, body.department_id)
             admins == SetToSeq({u \in DOMAIN inserted.users :
                                    inserted.users[u].role = "admin"})
         IN  Reply(createNotificationsForUsers(inserted, admins, "Nouvel utilisateur"),
                   201, "", {d.nextUserId})

\* POST /api/auth/register (no token): role defaults to 'employee'
register(d, body) ==
    LET role == IF body.role = "" THEN "employee" ELSE body.role IN
    IF body.name = ""
    THEN Reply(d, 400, "Name, email, and password are required", {})
    ELSE IF role \notin Roles
    THEN Reply(d, 400, "Invalid role", {})
    ELSE IF body.department_id # NULL /\ body.department_id \notin d.departments
    THEN Reply(d, 500, "Internal server error", {})
    ELSE Reply(InsertUser(d, role, body.department_id), 201, "", {d.nextUserId})

\* a handler without the admin check (the variant RoleImmutable must reject)
UpdateUserDeniedNobody(p) == FALSE

\* req.user.role !== 'admin' in PUT /api/users/:id
UpdateUserDenied(p) == p.role # "admin"

\* PUT /api/users/:id with name and email left out: role and department_id
\* are replaced when the body has them
updateUser(d, p, param, body) ==
    LET userId == SqlId(param) IN
    IF UpdateUserDenied(p)
    THEN Reply(d, 403, "Only admins can update users", {})
    ELSE IF userId \notin DOMAIN d.users
    THEN Reply(d, 404, "User not found", {})
    ELSE IF body.role # "" /\ body.role \notin Roles
    THEN Reply(d, 400, "Invalid role", {})
    ELSE IF body.department_id \notin {Undefined, NULL}
            /\ body.department_id \notin d.departments
    THEN Reply(d, 500, "Internal server error", {})
    ELSE LET updated ==
                 [d EXCEPT !.users[userId].role = IF body.role # "" THEN body.role ELSE @,
                           !.users[userId].department_id =
                               IF body.department_id # Undefined
                               THEN body.department_id ELSE @]
         IN  Reply(createNotificationsForUsers(updated, <<userId>>, "Compte mis à jour"),
                   200, "", {userId})

\* PUT /api/users/password with the right current password: the password
\* column is not part of the model's user rows
updatePassword(d, p) ==
    IF p.id \notin DOMAIN d.users
    THEN Reply(d, 404, "User not found", {})
    ELSE Reply(d, 200, "", {})

\* PUT /api/users/avatar: the avatar_url column is not part of the model's
\* user rows; the row read back goes into a new token
updateAvatar(d, p) ==
    Reply(d, 200, "", IF p.id \in DOMAIN d.users THEN {p.id} ELSE {})

\* ----------------------------------------------------------- departments
\* DELETE FROM departments WHERE id = departmentId with the schema's foreign
\* keys, all ON DELETE SET NULL
DeleteDepartmentRow(d, departmentId) ==
    [d EXCEPT
        !.departments = @ \ {departmentId},
        !.users = [u \in DOMAIN @ |->
                      IF @[u].department_id = departmentId
                      THEN [@[u] EXCEPT !.department_id = NULL] ELSE @[u]],
        !.equipment = [e \in DOMAIN @ |->
                      IF @[e].department_id = departmentId
                      THEN [@[e] EXCEPT !.department_id = NULL] ELSE @[e]],
        !.tickets = [t \in DOMAIN @ |->
                      [@[t] EXCEPT
                          !.department_id = IF @ = departmentId THEN NULL ELSE @,
                          !.target_department_id = IF @ = departmentId THEN NULL ELSE @]]]

\* a count that sees no user (the variant DeleteDepartmentBlocked must reject)
UsersUsingDeptNone(d, departmentId) == 0

\* SELECT COUNT(*) FROM users WHERE department_id = departmentId
UsersUsingDept(d, departmentId) ==
    Cardinality({u \in DOMAIN d.users : d.users[u].department_id = departmentId})

\* SELECT COUNT(*) FROM equipment WHERE department_id = departmentId
EquipmentUsingDept(d, departmentId) ==
    Cardinality({e \in DOMAIN d.equipment : d.equipment[e].department_id = departmentId})

\* DELETE /api/departments/:id
deleteDepartment(d, p, param) ==
    LET departmentId == SqlId(param) IN
    IF p.role # "admin"
    THEN Reply(d, 403, "Only admins can delete departments", {})
    ELSE IF departmentId \notin d.departments
    THEN Reply(d, 404, "Department not found", {})
    ELSE IF UsersUsingDept(d, departmentId) > 0
    THEN Reply(d, 400, "Cannot delete department that has users assigned to it", {})
    ELSE IF EquipmentUsingDept(d, departmentId) > 0
    THEN Reply(d, 400, "Cannot delete department that has equipment assigned to it", {})
    ELSE LET deleted == DeleteDepartmentRow(d, departmentId)
             admins == SetToSeq({u \in DOMAIN deleted.users : deleted.users[u].role = "admin"})
         IN  Reply(createNotificationsForUsers(deleted, admins, "Département supprimé"),
                   200, "", {})

\* PUT /api/users/profile with name and email given and the email kept: the
\* UPDATE of the requester's own row (no row when it was deleted), rejected by
\* the foreign key when the department does not exist, then the notification
updateProfile(d, p, department_id) ==
    IF department_id # NULL /\ department_id \notin d.departments
    THEN Reply(d, 500, "Internal server error", {})
    ELSE IF p.id \notin DOMAIN d.users
    THEN Reply(d, 200, "", {})
    ELSE Reply(createNotificationsForUsers(
                   [d EXCEPT !.users[p.id].department_id = department_id],
                   <<p.id>>, "Profil mis à jour"),
               200, "", {p.id})

\* ------------------------------------------------------------- equipment
\* the row INSERT INTO equipment (..., status, assigned_to_id, ...) stores:
\* department_id is not in the column list
InsertedEquipment(body) ==
    [status |-> body.status, assigned_to_id |-> body.assigned_to, department_id |-> NULL]

\* POST /api/equipment
createEquipment(d, p, body) ==
    IF body.name = ""
    THEN Reply(d, 400, "Missing required fields", {})
    ELSE IF body.assigned_to # NULL /\ body.assigned_to \notin DOMAIN d.users
    THEN Reply(d, 400, "Assignee not found", {})
    ELSE IF body.status \notin EquipmentStatuses
    THEN Reply(d, 500, "Internal server error", {})
    ELSE LET id == d.nextEquipmentId
             inserted == [d EXCEPT !.equipment = @ @@ (id :> InsertedEquipment(body)),
                                   !.nextEquipmentId = @ + 1]
             itAndAdmins == SetToSeq({u \in DOMAIN d.users :
                                         d.users[u].role \in {"admin", "it_personnel"}})
         IN  Reply(createNotificationsForUsers(inserted, itAndAdmins, "Équipement ajouté"),
                   201, "", {id})

\* PUT /api/equipment/:id with every field given: status and assigned_to_id
\* are both taken from the body; the status ENUM rejects other values
updateEquipment(d, p, param, body) ==
    LET equipmentId == SqlId(param) IN
    IF equipmentId \notin DOMAIN d.equipment
    THEN Reply(d, 404, "Equipment not found", {})
    ELSE IF body.assigned_to # NULL /\ body.assigned_to \notin DOMAIN d.users
    THEN Reply(d, 400, "Assignee not found", {})
    ELSE IF body.name = "" \/ body.status \notin EquipmentStatuses
    THEN Reply(d, 500, "Internal server error", {})
    ELSE LET updated == [d EXCEPT !.equipment[equipmentId].status = body.status,
                                  !.equipment[equipmentId].assigned_to_id = body.assigned_to]
             itAndAdmins == SetToSeq({u \in DOMAIN d.users :
                                         d.users[u].role \in {"admin", "it_personnel"}})
         IN  Reply(createNotificationsForUsers(updated, itAndAdmins, "Équipement mis à jour"),
                   200, "", {equipmentId})

\* DELETE /api/equipment/:id; the model's tickets name no equipment, so the
\* 'associated with tickets' refusal does not occur
deleteEquipment(d, p, param) ==
    LET equipmentId == SqlId(param) IN
    IF equipmentId \notin DOMAIN d.equipment
    THEN Reply(d, 404, "Equipment not found", {})
    ELSE LET deleted == [d EXCEPT !.equipment =
                            [e \in DOMAIN @ \ {equipmentId} |-> @[e]]]
             itAndAdmins == SetToSeq({u \in DOMAIN d.users :
                                         d.users[u].role \in {"admin", "it_personnel"}})
         IN  Reply(createNotificationsForUsers(deleted, itAndAdmins, "Équipement supprimé"),
                   200, "", {})

\* a status that does not follow the assignee (the variant
\* AssignSetsStatus must reject)
AssignStatusKept(userId) == "En utilisation"

\* userId ? 'En utilisation' : 'Disponible'
AssignStatus(userId) == IF userId # NULL THEN "En utilisation" ELSE "Disponible"

\* PUT /api/equipment/:id/assign
assignEquipment(d, p, param, userId) ==
    LET equipmentId == SqlId(param) IN
    IF equipmentId \notin DOMAIN d.equipment
    THEN Reply(d, 404, "Equipment not found", {})
    ELSE IF userId # NULL /\ userId \notin DOMAIN d.users
    THEN Reply(d, 404, "User not found", {})
    ELSE Reply([d EXCEPT !.equipment[equipmentId].assigned_to_id = userId,
                         !.equipment[equipmentId].status = AssignStatus(userId)],
               200, "", {equipmentId})

\* PUT /api/equipment/:id/unassign
unassignEquipment(d, p, param) ==
    LET equipmentId == SqlId(param) IN
    IF equipmentId \notin DOMAIN d.equipment
    THEN Reply(d, 404, "Equipment not found", {})
    ELSE Reply([d EXCEPT !.equipment[equipmentId].assigned_to_id = NULL,
                         !.equipment[equipmentId].status = "Disponible"],
               200, "", {equipmentId})

\* --------------------------------------------------------------- inputs
\* the model keeps at most MaxTickets tickets, MaxEquipment pieces of
\* equipment, MaxNewUsers users besides the initial ones and MaxNotifs
\* notification rows
Bounded(d) ==
    /\ d.nextTicketId <= MaxTickets + 1
    /\ d.nextEquipmentId <= MaxEquipment + 1
    /\ d.nextCommentId <= MaxComments + 1
    /\ Cardinality(DOMAIN d.users \ DOMAIN InitUsers) <= MaxNewUsers
    /\ BagCardinality(d.notifications) <= MaxNotifs

\* one request: the handler's reply becomes the next state
Handle(op, p, id, body, reply) ==
    /\ Bounded(reply.db)
    /\ db' = reply.db
    /\ res' = reply.res
    /\ req' = Request(op, p, id, body)
    /\ UNCHANGED <<tokens, inflight, clientVars>>

TicketParams == {IdString(n) : n \in 1..(MaxTickets + 1)}

\* a user id that is in no row
NoSuchUser == 9

\* what TicketForm.handleSubmit sends: created_by and department_id are the
\* logged-in user's, target_department_id the chosen department or else the
\* user's own, status 'Ouvert' and no assignee
TicketFormBody(d, p, target, priority) ==
    LET dept == IF p.id \in DOMAIN d.users THEN d.users[p.id].department_id ELSE NULL
    IN  [NoBody EXCEPT !.created_by = p.id,
                       !.department_id = dept,
                       !.target_department_id = IF target # NULL THEN target ELSE dept,
                       !.priority = priority,
                       !.status = "Ouvert"]

\* the bodies of POST /api/tickets the model sends: the form's, the same with
\* another status or an assignee, and two the handler rejects
CreateTicketBodies(d, p) ==
    LET form == {TicketFormBody(d, p, target, priority) :
                    target \in {NULL, 2, 3}, priority \in {"Basse", "Haute"}}
        plain == TicketFormBody(d, p, NULL, "Normale")
    IN  form
        \cup {[plain EXCEPT !.status = s] : s \in {"Résolu", "En attente"}}
        \cup {[plain EXCEPT !.assigned_to = a] : a \in {2, 4, NoSuchUser}}
        \cup {[plain EXCEPT !.created_by = 1]}

\* --------------------------------------------------------------- initial
NoRequest == [op |-> "none", user |-> NULL, role |-> "", id |-> NULL, body |-> NoBody]

\* no request is between two statements
Idle == [pc |-> "idle", user |-> NULL, role |-> "", param |-> <<>>]

InitDb ==
    [users |-> InitUsers, nextUserId |-> 5,
     departments |-> SeedDepartments,
     equipment |-> <<>>, nextEquipmentId |-> 1,
     tickets |-> <<>>, nextTicketId |-> 1,
     comments |-> <<>>, nextCommentId |-> 1,
     notifications |-> EmptyBag,
     fault |-> [on |-> FALSE, after |-> 0], thrown |-> FALSE]

Init ==
    /\ db = InitDb
    /\ tokens = {[id |-> u, role |-> InitUsers[u].role] : u \in DOMAIN InitUsers}
    /\ req = NoRequest
    /\ res = [status |-> 200, error |-> "", rows |-> {}]
    /\ inflight = Idle
    /\ currentUser \in {p \in tokens : p.role = "admin"}
    /\ stateUsers = {}
    /\ selectedUsers = {}
    /\ showBulkDeleteModal = FALSE
    /\ isDeleting = FALSE
    /\ bulkTodo = {}
    /\ bulkVisited = {}
    /\ consoleErrors = {}
    /\ shown = ""
    /\ notificationState = [notifications |-> <<>>, unreadCount |-> 0, isMuted |-> FALSE]

\* --------------------------------------------------- ticket specification
CreateTicket ==
    \E p \in tokens : \E body \in CreateTicketBodies(db, p) :
        Handle("createTicket", p, NULL, body, createTicket(db, p, body))

AssignTicket ==
    \E p \in tokens, param \in TicketParams, userId \in {NULL, 2, 4, NoSuchUser} :
        Handle("assignTicket", p, SqlId(param), [NoBody EXCEPT !.userId = userId],
               assignTicket(db, p, param, userId))

CloseTicket ==
    \E p \in tokens, param \in TicketParams :
        Handle("closeTicket", p, SqlId(param), NoBody, closeTicket(db, p, param))

EscalateTicket ==
    \E p \in tokens, param \in TicketParams :
        Handle("escalateTicket", p, SqlId(param), NoBody, escalateTicket(db, p, param))

GetTickets ==
    \E p \in tokens : Handle("getTickets", p, NULL, NoBody, getTickets(db, p))


Next ==
    \/ CreateTicket
    \/ AssignTicket
    \/ CloseTicket
    \/ EscalateTicket
    \/ GetTickets

Spec == Init /\ [][Next]_vars

\* ------------------------------------------------------- ticket claims
\* the close rule of the rule table, on the stored ticket
CloseAuthorized(p, ticket) ==
    p.role = "admin" \/ ticket.created_by = p.id \/ ticket.assigned_to = p.id

\* the principal of a request
Principal(r) == [id |-> r.user, role |-> r.role]

\* C1: closing an existing ticket succeeds and sets status 'Fermé' for an
\* admin, the creator or the assignee, and is denied with 403, the database
\* unchanged, for anyone else
CloseByCreatorAssigneeOrAdmin ==
    [][(req'.op = "closeTicket" /\ req'.id \in DOMAIN db.tickets) =>
          IF CloseAuthorized(Principal(req'), db.tickets[req'.id])
          THEN res'.status = 200 /\ db'.tickets[req'.id].status = "Fermé"
          ELSE res'.status = 403 /\ db' = db]_vars

\* the recipients the routing rule names for a ticket created by p with this body
RoutedRecipients(d, p, body) ==
    {u \in DOMAIN d.users :
        \/ d.users[u].role \in {"admin", "it_personnel"}
        \/ (body.target_department_id # NULL
              /\ d.users[u].department_id = body.target_department_id)
        \/ (body.department_id # NULL
              /\ d.users[u].department_id = body.department_id)} \ {p.id}

\* C2: a created ticket adds a 'Nouveau ticket créé' row for exactly the
\* admins, the IT personnel and the users of the target department and of the
\* creator's department, the creator excepted
TicketCreatedRouting ==
    [][(req'.op = "createTicket" /\ res'.status = 201) =>
          BagToSet(db'.notifications (-) db.notifications)
              = {NotificationRow(u, "Nouveau ticket créé") :
                    u \in RoutedRecipients(db, Principal(req'), req'.body)}]_vars

\* C3: an assign request of an employee is never answered 200 and leaves the
\* database, so the ticket's assigned_to and status, as it was
EmployeeCannotAssign ==
    [][(req'.op = "assignTicket" /\ req'.role = "employee") =>
          (res'.status # 200 /\ db' = db)]_vars

\* C4: an escalate request of an employee is answered 403 on an existing
\* ticket, never 200, and changes nothing; an admin's or IT personnel's is
\* answered 200 on an existing ticket
EscalateByRole ==
    \A p \in tokens : \A param \in TicketParams :
        LET r == escalateTicket(db, p, param)
            exists == SqlId(param) \in DOMAIN db.tickets
        IN  IF p.role = "employee"
            THEN /\ r.db = db
                 /\ r.res.status # 200
                 /\ exists => r.res.status = 403
            ELSE exists => r.res.status = 200

EscalateByRoleWitness ==
    /\ req.op = "escalateTicket"
    /\ req.role = "employee"
    /\ req.id \in DOMAIN db.tickets
    /\ res.status = 403

Rank(priority) ==
    CASE priority = "Basse" -> 1
      [] priority = "Normale" -> 2
      [] priority = "Haute" -> 3
      [] priority = "Urgente" -> 4

\* n successful escalate requests of p on the same ticket, one after the other
RECURSIVE Escalations(_, _, _, _)
Escalations(d, p, param, n) ==
    IF n = 0 THEN d ELSE Escalations(escalateTicket(d, p, param).db, p, param, n - 1)

\* C5: a successful escalate moves the priority one step up, Urgente staying
\* Urgente, and sets status 'Escaladé' whatever it was; so the priority never
\* goes down, three escalations reach Urgente and a fourth leaves it there
EscalationStep ==
    \A p \in tokens : \A id \in DOMAIN db.tickets :
        LET old == db.tickets[id]
            r == escalateTicket(db, p, IdString(id))
            new == r.db.tickets[id]
        IN  r.res.status = 200 =>
              /\ Rank(new.priority) = (IF Rank(old.priority) = 4 THEN 4 ELSE Rank(old.priority) + 1)
              /\ Rank(new.priority) >= Rank(old.priority)
              /\ new.status = "Escaladé"
              /\ Escalations(db, p, IdString(id), 3).tickets[id].priority = "Urgente"
              /\ Escalations(db, p, IdString(id), 4).tickets[id].priority = "Urgente"

EscalationStepWitness ==
    /\ req.op = "escalateTicket"
    /\ res.status = 200
    /\ req.id \in DOMAIN db.tickets
    /\ db.tickets[req.id].priority = "Urgente"
    /\ db.tickets[req.id].status = "Escaladé"

\* C10: the ticket list of an employee is exactly the tickets that employee
\* created; an admin's or IT personnel's is every ticket
TicketListByRole ==
    \A p \in tokens :
        getTickets(db, p).res.rows =
            IF p.role = "employee"
            THEN {t \in DOMAIN db.tickets : db.tickets[t].created_by = p.id}
            ELSE DOMAIN db.tickets

\* an employee listed tickets while a ticket of somebody else was assigned to them
TicketListByRoleWitness ==
    /\ req.op = "getTickets"
    /\ req.role = "employee"
    /\ \E t \in DOMAIN db.tickets :
          /\ db.tickets[t].created_by # req.user
          /\ db.tickets[t].assigned_to = req.user
          /\ t \notin res.rows

\* ------------------------------------------------- user management client
OwnAccountMessage == "Vous ne pouvez pas supprimer votre propre compte."

BulkDeletedMessage == "utilisateur(s) ont été supprimé(s) avec succès."

\* a check that lets every selection through (the variant
\* BulkDeleteRefusedOrComplete must reject)
BulkDeleteRefusedNever(users, selected, user) == FALSE

\* handleBulkDelete: usersToDelete.some(u => u.id === currentUser?.id)
BulkDeleteRefused(users, selected, user) ==
    LET usersToDelete == {u \in users : u \in selected}
    IN  \E u \in usersToDelete : u = user.id

\* the 'Actualiser' button: AppProvider.loadUsers dispatches SET_USERS
LoadUsers ==
    LET reply == getUsers(db) IN
    /\ stateUsers' = reply.res.rows
    /\ res' = reply.res
    /\ req' = Request("getUsers", currentUser, NULL, NoBody)
    /\ UNCHANGED <<db, tokens, inflight, notificationState, currentUser, selectedUsers, showBulkDeleteModal,
                   isDeleting, bulkTodo, bulkVisited, consoleErrors, shown>>

\* a row's checkbox; the open dialog covers the table. The model checks at
\* most MaxSelected rows.
HandleSelectUser ==
    /\ ~showBulkDeleteModal
    /\ \E userId \in stateUsers :
          /\ selectedUsers' = IF userId \in selectedUsers
                              THEN selectedUsers \ {userId}
                              ELSE selectedUsers \cup {userId}
          /\ Cardinality(selectedUsers') <= MaxSelected
    /\ UNCHANGED <<db, tokens, inflight, notificationState, req, res, currentUser, stateUsers, showBulkDeleteModal,
                   isDeleting, bulkTodo, bulkVisited, consoleErrors, shown>>

\* the 'Supprimer la sélection' button, shown while rows are selected
HandleBulkDelete ==
    /\ ~showBulkDeleteModal
    /\ selectedUsers # {}
    /\ IF BulkDeleteRefused(stateUsers, selectedUsers, currentUser)
       THEN shown' = OwnAccountMessage /\ UNCHANGED showBulkDeleteModal
       ELSE showBulkDeleteModal' = TRUE /\ UNCHANGED shown
    /\ UNCHANGED <<db, tokens, inflight, notificationState, req, res, currentUser, stateUsers, selectedUsers,
                   isDeleting, bulkTodo, bulkVisited, consoleErrors>>

\* the dialog's 'Annuler' button
CancelBulkDelete ==
    /\ showBulkDeleteModal
    /\ showBulkDeleteModal' = FALSE
    /\ UNCHANGED <<db, tokens, inflight, notificationState, req, res, currentUser, stateUsers, selectedUsers,
                   isDeleting, bulkTodo, bulkVisited, consoleErrors, shown>>

\* the dialog's 'Supprimer' button, disabled while isDeleting: confirmBulkDelete
\* up to its first await
ConfirmBulkDelete ==
    /\ showBulkDeleteModal
    /\ ~isDeleting
    /\ isDeleting' = TRUE
    /\ bulkTodo' = selectedUsers
    /\ bulkVisited' = {}
    /\ UNCHANGED <<db, tokens, inflight, notificationState, req, res, currentUser, stateUsers, selectedUsers,
                   showBulkDeleteModal, consoleErrors, shown>>

\* one turn of confirmBulkDelete's loop: await deleteUser(userId), which
\* dispatches DELETE_USER after a 2xx answer and logs any other; after the
\* last turn the code behind the loop runs
BulkDeleteStep ==
    /\ isDeleting
    /\ \E userId \in bulkTodo :
          LET reply == deleteUser(db, currentUser, IdString(userId))
              ok == reply.res.status = 200
              last == bulkTodo = {userId}
          IN  /\ Bounded(reply.db)
              /\ db' = reply.db
              /\ res' = reply.res
              /\ req' = Request("deleteUser", currentUser, IdString(userId), NoBody)
              /\ stateUsers' = IF ok THEN stateUsers \ {userId} ELSE stateUsers
              /\ consoleErrors' = IF ok THEN consoleErrors ELSE consoleErrors \cup {userId}
              /\ bulkTodo' = bulkTodo \ {userId}
              /\ bulkVisited' = bulkVisited \cup {userId}
              /\ shown' = IF last THEN BulkDeletedMessage ELSE shown
              /\ selectedUsers' = IF last THEN {} ELSE selectedUsers
              /\ showBulkDeleteModal' = IF last THEN FALSE ELSE showBulkDeleteModal
              /\ isDeleting' = ~last
    /\ UNCHANGED <<tokens, inflight, notificationState, currentUser>>

\* the :id parameters a holder of token p sends: its own id as the client
\* writes it, the id of the user after it, and for id 1 a spelling of it that
\* the client never writes
UserParams(p) ==
    {IdString(p.id), IdString((p.id % 4) + 1)}
        \cup (IF p.id = 1 THEN {<<"0", ".", "1", "e", "1">>} ELSE {})

\* DELETE /api/users/:id sent by any holder of a token
DeleteUser ==
    \E p \in tokens : \E param \in UserParams(p) :
        Handle("deleteUser", p, param, NoBody, deleteUser(db, p, param))

NextUsers ==
    \/ LoadUsers
    \/ HandleSelectUser
    \/ HandleBulkDelete
    \/ CancelBulkDelete
    \/ ConfirmBulkDelete
    \/ BulkDeleteStep
    \/ DeleteUser

SpecUsers == Init /\ [][NextUsers]_vars

\* ----------------------------------------------------------- user claims
\* C6: no DELETE /api/users/:id request removes the row of the user who
\* made it, whatever the role
NoSelfDelete ==
    [][(req'.op = "deleteUser" /\ req'.user \in DOMAIN db.users) =>
          req'.user \in DOMAIN db'.users]_vars

\* C9 as stated: a bulk delete of a selection that holds the acting admin's
\* own account ends with the other selected users deleted
BulkDeleteSparesOnlyOwnAccount ==
    [][(shown' # shown /\ shown' \in {OwnAccountMessage, BulkDeletedMessage}
          /\ currentUser.id \in selectedUsers) =>
          \A u \in selectedUsers \ {currentUser.id} : u \notin DOMAIN db'.users]_vars

\* C9: a selection that holds the acting user's own account never gets to the
\* confirmation dialog, so no request is sent for it; a confirmed bulk delete
\* visits every selected id, a failed delete is logged and neither stops the
\* loop nor brings back a deleted user, and an admin's loop leaves none of the
\* other selected users behind
BulkDeleteRefusedOrComplete ==
    /\ (showBulkDeleteModal /\ ~isDeleting) =>
          currentUser.id \notin (selectedUsers \cap stateUsers)
    /\ ~isDeleting => bulkTodo = {}
    /\ \A u \in bulkVisited :
          /\ u \in consoleErrors \/ u \notin DOMAIN db.users
          /\ (currentUser.role = "admin" /\ u # currentUser.id) => u \notin DOMAIN db.users

\* a bulk delete went through although one of its deletes failed, and a later
\* one on a selection with the own account was refused with the other
\* selected user still there
BulkDeleteRefusedOrCompleteWitness ==
    /\ shown = OwnAccountMessage
    /\ ~showBulkDeleteModal
    /\ currentUser.id \in selectedUsers
    /\ \E u \in selectedUsers : u # currentUser.id /\ u \in DOMAIN db.users
    /\ \E u, v \in bulkVisited : u \in consoleErrors /\ v \notin consoleErrors

\* ------------------------------------------------ equipment specification
EquipmentParams == {IdString(n) : n \in 1..(MaxEquipment + 1)}

\* the bodies of POST /api/equipment the model sends: every status with and
\* without an assignee, and three the handler rejects
CreateEquipmentBodies ==
    LET named == [NoBody EXCEPT !.name = "PC"]
    IN  {[named EXCEPT !.status = s, !.assigned_to = a] :
            s \in EquipmentStatuses, a \in {NULL, 3}}
        \cup {[NoBody EXCEPT !.status = "Disponible"],
              [named EXCEPT !.status = "Disponible", !.assigned_to = NoSuchUser],
              [named EXCEPT !.status = "Perdu"]}

CreateEquipment ==
    \E p \in tokens : \E body \in CreateEquipmentBodies :
        Handle("createEquipment", p, NULL, body, createEquipment(db, p, body))

AssignEquipment ==
    \E p \in tokens, param \in EquipmentParams, userId \in {NULL, 2, 3, NoSuchUser} :
        Handle("assignEquipment", p, SqlId(param), [NoBody EXCEPT !.userId = userId],
               assignEquipment(db, p, param, userId))

UnassignEquipment ==
    \E p \in tokens, param \in EquipmentParams :
        Handle("unassignEquipment", p, SqlId(param), NoBody, unassignEquipment(db, p, param))

NextEquipment ==
    \/ CreateEquipment
    \/ AssignEquipment
    \/ UnassignEquipment

SpecEquipment == Init /\ [][NextEquipment]_vars

\* C7: a successful assign with a user id leaves the equipment assigned to
\* that user with status 'En utilisation'; a successful unassign, or assign
\* without a user id, leaves it unassigned with status 'Disponible'; whatever
\* the status was
AssignSetsStatus ==
    \A p \in tokens : \A e \in DOMAIN db.equipment :
        /\ \A userId \in {NULL, NoSuchUser} \cup DOMAIN db.users :
              LET r == assignEquipment(db, p, IdString(e), userId) IN
              r.res.status = 200 =>
                 /\ r.db.equipment[e].assigned_to_id = userId
                 /\ r.db.equipment[e].status =
                        IF userId # NULL THEN "En utilisation" ELSE "Disponible"
        /\ LET r == unassignEquipment(db, p, IdString(e)) IN
              /\ r.res.status = 200
              /\ r.db.equipment[e].assigned_to_id = NULL
              /\ r.db.equipment[e].status = "Disponible"

\* a retired piece of equipment assigned to user 3: assigning it to user 2
\* puts it in use, unassigning it makes it available
AssignSetsStatusWitness ==
    \E e \in DOMAIN db.equipment :
        /\ db.equipment[e].status = "Retiré"
        /\ db.equipment[e].assigned_to_id = 3
        /\ LET r == assignEquipment(db, currentUser, IdString(e), 2) IN
              /\ r.res.status = 200
              /\ r.db.equipment[e].status = "En utilisation"
              /\ r.db.equipment[e].assigned_to_id = 2
        /\ LET r == unassignEquipment(db, currentUser, IdString(e)) IN
              /\ r.res.status = 200
              /\ r.db.equipment[e].status = "Disponible"
              /\ r.db.equipment[e].assigned_to_id = NULL

\* ----------------------------------------------- department specification
\* the seeded departments and an id no department has
DepartmentParams == {IdString(n) : n \in SeedDepartments \cup {5}}

UpdateProfile ==
    \E p \in tokens, department_id \in {NULL, 2, 4} :
        LET reply == updateProfile(db, p, department_id) IN
        /\ Bounded(reply.db)
        /\ db' = reply.db
        /\ res' = reply.res
        /\ req' = Request("updateProfile", p, NULL, [NoBody EXCEPT !.department_id = department_id])
        /\ tokens' = tokens \cup {[id |-> u, role |-> reply.db.users[u].role] : u \in reply.res.rows}
        /\ UNCHANGED <<inflight, clientVars>>

DeleteDepartment ==
    \E p \in tokens, param \in DepartmentParams :
        Handle("deleteDepartment", p, SqlId(param), NoBody, deleteDepartment(db, p, param))

NextDepartments ==
    \/ UpdateProfile
    \/ DeleteDepartment

SpecDepartments == Init /\ [][NextDepartments]_vars

ConflictErrors ==
    {"Cannot delete department that has users assigned to it",
     "Cannot delete department that has equipment assigned to it"}

\* C8: an admin's delete of an existing department that no user and no
\* equipment references succeeds and removes it; while a user or a piece of
\* equipment references it the delete is refused with the in-use error and
\* changes nothing
DeleteDepartmentBlocked ==
    \A p \in tokens : \A dept \in db.departments :
        LET r == deleteDepartment(db, p, IdString(dept))
            referenced ==
                \/ \E u \in DOMAIN db.users : db.users[u].department_id = dept
                \/ \E e \in DOMAIN db.equipment : db.equipment[e].department_id = dept
        IN  p.role = "admin" =>
              IF referenced
              THEN r.res.status = 400 /\ r.res.error \in ConflictErrors /\ r.db = db
              ELSE /\ r.res.status = 200
                   /\ r.db.departments = db.departments \ {dept}
                   /\ r.db.users = db.users
                   /\ r.db.equipment = db.equipment

\* an admin's delete of a department was refused because a user had moved
\* into it, after another department was deleted
DeleteDepartmentBlockedWitness ==
    /\ req.op = "deleteDepartment"
    /\ req.role = "admin"
    /\ res.error \in ConflictErrors
    /\ req.id \in db.departments
    /\ \E u \in DOMAIN db.users : db.users[u].department_id = req.id
    /\ db.departments # SeedDepartments

\* ------------------------------------------- ticket update specification
\* TicketForm submitted by a logged-in user
SubmitTicket ==
    \E p \in tokens :
        LET body == TicketFormBody(db, p, NULL, "Normale")
        IN  Handle("createTicket", p, NULL, body, createTicket(db, p, body))

\* the bodies of PUT /api/tickets/:id the model sends: one field each, a
\* status with an assignee, and two the database rejects
UpdateTicketBodies ==
    LET none == [NoBody EXCEPT !.assigned_to = Undefined]
    IN  {[none EXCEPT !.status = "Résolu"],
         [none EXCEPT !.priority = "Urgente"],
         [none EXCEPT !.assigned_to = 3],
         [none EXCEPT !.assigned_to = NULL],
         [none EXCEPT !.status = "En attente", !.assigned_to = 2],
         [none EXCEPT !.assigned_to = NoSuchUser],
         none}

UpdateTicket ==
    \E p \in tokens, param \in TicketParams, body \in UpdateTicketBodies :
        Handle("updateTicket", p, SqlId(param), body, updateTicket(db, p, param, body))

NextTicketUpdates ==
    \/ SubmitTicket
    \/ UpdateTicket

SpecTicketUpdates == Init /\ [][NextTicketUpdates]_vars

\* the tickets of d with the created_by they have in e, as far as e has them
SameCreators(d, e) ==
    \A t \in DOMAIN d.tickets \cap DOMAIN e.tickets :
        e.tickets[t].created_by = d.tickets[t].created_by

\* C11: a create request whose created_by is not the requester's id is
\* rejected and stores nothing; a stored ticket's created_by is the id of the
\* requester that created it, and no update, assign, close or escalate
\* request changes it
TicketAttribution ==
    \A p \in tokens :
        /\ \A c \in DOMAIN InitUsers \cup {NoSuchUser} : \A a \in {NULL, 2} :
              LET body == [TicketFormBody(db, p, NULL, "Normale") EXCEPT
                              !.created_by = c, !.assigned_to = a]
                  r == createTicket(db, p, body)
              IN  /\ c # p.id => (r.res.status = 400 /\ r.db = db)
                  /\ \A t \in DOMAIN r.db.tickets \ DOMAIN db.tickets :
                        r.db.tickets[t].created_by = p.id
                  /\ SameCreators(db, r.db)
        /\ \A param \in TicketParams :
              /\ \A body \in UpdateTicketBodies :
                    SameCreators(db, updateTicket(db, p, param, body).db)
              /\ \A userId \in {NULL, 2, 3} :
                    SameCreators(db, assignTicket(db, p, param, userId).db)
              /\ SameCreators(db, closeTicket(db, p, param).db)
              /\ SameCreators(db, escalateTicket(db, p, param).db)

\* a ticket of user 3 was updated by somebody else and is still user 3's
TicketAttributionWitness ==
    /\ req.op = "updateTicket"
    /\ res.status = 200
    /\ req.id \in DOMAIN db.tickets
    /\ db.tickets[req.id].created_by = 3
    /\ req.user # 3
    /\ db.tickets[req.id].status = "Résolu"
    /\ LET body == [TicketFormBody(db, Principal(req), NULL, "Normale") EXCEPT
                       !.created_by = 3]
       IN  createTicket(db, Principal(req), body).res.error
              = "You can only create tickets for yourself"

\* ------------------------------------------------- account specification
\* a request without a token
Anonymous == [id |-> NULL, role |-> ""]

\* jwt.sign({id, email, role}) over a row read back from users
IssuedTokens(d, ids) == {[id |-> u, role |-> d.users[u].role] : u \in ids \cap DOMAIN d.users}

\* a request whose answer carries a token for the rows it returns
HandleWithToken(op, p, id, body, reply) ==
    /\ Bounded(reply.db)
    /\ db' = reply.db
    /\ res' = reply.res
    /\ req' = Request(op, p, id, body)
    /\ tokens' = tokens \cup IssuedTokens(reply.db, reply.res.rows)
    /\ UNCHANGED <<inflight, clientVars>>

CreateUserBodies ==
    LET named == [NoBody EXCEPT !.name = "Nadia"]
    IN  {[named EXCEPT !.role = "admin", !.department_id = 2],
         [named EXCEPT !.role = "employee"],
         named}

CreateUser ==
    \E p \in tokens : \E body \in CreateUserBodies :
        Handle("createUser", p, NULL, body, createUser(db, p, body))

Register ==
    \E role \in {"", "admin", "root"} :
        LET body == [NoBody EXCEPT !.name = "Nadia", !.role = role]
        IN  HandleWithToken("register", Anonymous, NULL, body, register(db, body))

UpdateUserBodies ==
    LET none == [NoBody EXCEPT !.department_id = Undefined]
    IN  {[none EXCEPT !.role = "admin"],
         [none EXCEPT !.role = "employee"],
         [none EXCEPT !.department_id = 4]}

UpdateUser ==
    \E p \in tokens, param \in {IdString(2), IdString(3)}, body \in UpdateUserBodies :
        Handle("updateUser", p, SqlId(param), body, updateUser(db, p, param, body))

UpdatePassword ==
    \E p \in tokens : Handle("updatePassword", p, NULL, NoBody, updatePassword(db, p))

UpdateAvatar ==
    \E p \in tokens :
        HandleWithToken("updateAvatar", p, NULL, NoBody, updateAvatar(db, p))

NextAccounts ==
    \/ CreateUser
    \/ Register
    \/ UpdateUser
    \/ UpdatePassword
    \/ UpdateAvatar

SpecAccounts == Init /\ [][NextAccounts]_vars

\* C12: a create-user request of a principal who is not an admin is denied
\* and adds no user row
CreateUserAdminOnly ==
    [][(req'.op = "createUser" /\ req'.role # "admin") =>
          (res'.status = 403 /\ db'.users = db.users)]_vars

\* the users of d have in e the role they have in d, as far as e has them
SameRoles(d, e) ==
    \A u \in DOMAIN d.users \cap DOMAIN e.users : e.users[u].role = d.users[u].role

\* C13: the role of an existing user is changed by no request but an
\* update-user request of a principal with role admin: not by a profile,
\* password or avatar update, not by an update-user request of a non-admin,
\* and not by a registration, a user creation or a user deletion
RoleImmutable ==
    /\ \A p \in tokens :
          /\ \A department_id \in {NULL} \cup SeedDepartments :
                SameRoles(db, updateProfile(db, p, department_id).db)
          /\ SameRoles(db, updatePassword(db, p).db)
          /\ SameRoles(db, updateAvatar(db, p).db)
          /\ \A body \in CreateUserBodies : SameRoles(db, createUser(db, p, body).db)
          /\ \A param \in {IdString(u) : u \in DOMAIN db.users} :
                /\ SameRoles(db, deleteUser(db, p, param).db)
                /\ \A body \in UpdateUserBodies :
                      LET r == updateUser(db, p, param, body) IN
                      p.role # "admin" => (r.res.status = 403 /\ r.db = db)
    /\ \A role \in Roles \cup {""} :
          SameRoles(db, register(db, [NoBody EXCEPT !.name = "Nadia", !.role = role]).db)

\* an admin changed the role of a user; the same request of that user's own
\* token, which is not an admin's, is refused
RoleImmutableWitness ==
    /\ req.op = "updateUser"
    /\ req.role = "admin"
    /\ res.status = 200
    /\ req.id \in DOMAIN db.users
    /\ db.users[req.id].role # InitUsers[req.id].role
    /\ \E p \in tokens :
          /\ p.id = req.id
          /\ p.role # "admin"
          /\ updateUser(db, p, IdString(req.id), req.body).res.status = 403

\* ----------------------------------------------- inventory specification
\* the bodies of PUT /api/equipment/:id the model sends: the form's fields
\* with a status and an assignee chosen apart, and one without a status
UpdateEquipmentBodies ==
    LET named == [NoBody EXCEPT !.name = "PC"]
    IN  {[named EXCEPT !.status = s, !.assigned_to = a] :
            s \in {"Disponible", "En utilisation", "En panne"}, a \in {NULL, 3}}
        \cup {named}

UpdateEquipment ==
    \E p \in tokens, param \in EquipmentParams, body \in UpdateEquipmentBodies :
        Handle("updateEquipment", p, SqlId(param), body, updateEquipment(db, p, param, body))

DeleteEquipment ==
    \E p \in tokens, param \in EquipmentParams :
        Handle("deleteEquipment", p, SqlId(param), NoBody, deleteEquipment(db, p, param))

NextInventory ==
    \/ CreateEquipment
    \/ UpdateEquipment
    \/ DeleteEquipment
    \/ AssignEquipment
    \/ UnassignEquipment
    \/ DeleteUser

SpecInventory == Init /\ [][NextInventory]_vars

EquipmentMutations ==
    {"createEquipment", "updateEquipment", "deleteEquipment",
     "assignEquipment", "unassignEquipment"}

\* C14: a create, update, delete, assign or unassign equipment request of an
\* employee is denied and leaves the equipment table as it was
EmployeeCannotChangeEquipment ==
    [][(req'.op \in EquipmentMutations /\ req'.role = "employee") =>
          (res'.status \notin {200, 201} /\ db'.equipment = db.equipment)]_vars

\* C20: in every reachable state an equipment is assigned to a user exactly
\* when its status is 'En utilisation'
EquipmentLockstep ==
    \A e \in DOMAIN db.equipment :
        (db.equipment[e].assigned_to_id # NULL) <=> (db.equipment[e].status = "En utilisation")

\* ---------------------------------------------- discussion specification
\* a ticket opened by its requester, unassigned or with an assignee
OpenTicket ==
    \E p \in tokens, a \in {NULL, 2} :
        LET body == [TicketFormBody(db, p, NULL, "Normale") EXCEPT !.assigned_to = a]
        IN  Handle("createTicket", p, NULL, body, createTicket(db, p, body))

DeleteTicket ==
    \E p \in tokens, param \in TicketParams :
        Handle("deleteTicket", p, SqlId(param), NoBody, deleteTicket(db, p, param))

CommentParams == {IdString(n) : n \in 1..(MaxComments + 1)}

AddComment ==
    \E p \in tokens, param \in TicketParams :
        LET body == [NoBody EXCEPT !.content = "first"]
        IN  Handle("addComment", p, SqlId(param), body, addComment(db, p, param, body))

UpdateComment ==
    \E p \in tokens, param \in TicketParams, commentParam \in CommentParams :
        LET body == [NoBody EXCEPT !.commentId = commentParam, !.content = "edited"]
        IN  Handle("updateComment", p, SqlId(param), body,
                   updateComment(db, p, param, commentParam, body))

DeleteComment ==
    \E p \in tokens, param \in TicketParams, commentParam \in CommentParams :
        LET body == [NoBody EXCEPT !.commentId = commentParam]
        IN  Handle("deleteComment", p, SqlId(param), body,
                   deleteComment(db, p, param, commentParam))

NextDiscussion ==
    \/ OpenTicket
    \/ DeleteTicket
    \/ AddComment
    \/ UpdateComment
    \/ DeleteComment

SpecDiscussion == Init /\ [][NextDiscussion]_vars

\* the comments of a ticket
CommentsOf(d, ticketId) == {c \in DOMAIN d.comments : d.comments[c].ticket_id = ticketId}

\* C15: deleting an existing ticket succeeds, removing the ticket with its
\* comments, exactly when the requester is an admin or the ticket's creator;
\* anyone else, the assignee included, is answered 403 and the ticket and
\* its comments stay
DeleteTicketByAdminOrCreator ==
    \A p \in tokens : \A param \in TicketParams :
        LET ticketId == SqlId(param)
            r == deleteTicket(db, p, param)
        IN  ticketId \in DOMAIN db.tickets =>
              IF p.role = "admin" \/ p.id = db.tickets[ticketId].created_by
              THEN /\ r.res.status = 200
                   /\ ticketId \notin DOMAIN r.db.tickets
                   /\ CommentsOf(r.db, ticketId) = {}
              ELSE /\ r.res.status = 403
                   /\ r.db = db

\* the assignee of a commented ticket of somebody else asked to delete it and
\* was refused, while its creator would be let through
DeleteTicketByAdminOrCreatorWitness ==
    /\ req.op = "deleteTicket"
    /\ res.status = 403
    /\ req.id \in DOMAIN db.tickets
    /\ db.tickets[req.id].assigned_to = req.user
    /\ CommentsOf(db, req.id) # {}
    /\ \E p \in tokens :
          /\ p.role # "admin"
          /\ p.id = db.tickets[req.id].created_by
          /\ deleteTicket(db, p, IdString(req.id)).res.status = 200

\* C16: editing or deleting an existing comment succeeds exactly when the
\* requester is an admin or the comment's author; anyone else, the ticket's
\* creator and assignee included, is answered 403 and the comments stay as
\* they were
CommentChangeByAdminOrAuthor ==
    \A p \in tokens : \A param \in TicketParams : \A commentParam \in CommentParams :
        LET commentId == SqlId(commentParam)
            body == [NoBody EXCEPT !.content = "edited"]
            u == updateComment(db, p, param, commentParam, body)
            x == deleteComment(db, p, param, commentParam)
        IN  (commentId \in DOMAIN db.comments /\ db.comments[commentId].ticket_id = SqlId(param)) =>
              IF p.role = "admin" \/ p.id = db.comments[commentId].author_id
              THEN /\ u.res.status = 200
                   /\ u.db.comments[commentId].content = "edited"
                   /\ x.res.status = 200
                   /\ commentId \notin DOMAIN x.db.comments
              ELSE /\ u.res.status = 403
                   /\ u.db = db
                   /\ x.res.status = 403
                   /\ x.db = db

\* the creator of a ticket asked to edit somebody else's comment on it and
\* was refused, while the comment's author, not an admin, would be let through
CommentChangeByAdminOrAuthorWitness ==
    /\ req.op = "updateComment"
    /\ res.status = 403
    /\ req.id \in DOMAIN db.tickets
    /\ db.tickets[req.id].created_by = req.user
    /\ SqlId(req.body.commentId) \in DOMAIN db.comments
    /\ LET comment == db.comments[SqlId(req.body.commentId)]
       IN  /\ comment.content = "first"
           /\ comment.author_id # req.user
           /\ \E p \in tokens :
                 /\ p.role # "admin"
                 /\ p.id = comment.author_id
                 /\ deleteComment(db, p, IdString(req.id), req.body.commentId).res.status = 200

\* -------------------------------------------- notification specification
\* the database starts rejecting the INSERTs into notifications, at once or
\* after one more
FailNotifications ==
    /\ ~db.fault.on
    /\ \E k \in 0..1 : db' = [db EXCEPT !.fault = [on |-> TRUE, after |-> k]]
    /\ UNCHANGED <<tokens, req, res, inflight, clientVars>>

RepairNotifications ==
    /\ db.fault.on
    /\ db' = [db EXCEPT !.fault = [on |-> FALSE, after |-> 0]]
    /\ UNCHANGED <<tokens, req, res, inflight, clientVars>>

NextNotifications ==
    \/ OpenTicket
    \/ AddComment
    \/ FailNotifications
    \/ RepairNotifications

SpecNotifications == Init /\ [][NextNotifications]_vars

\* the tables of d other than notifications
Primary(d) == [d EXCEPT !.notifications = EmptyBag, !.fault = [on |-> FALSE, after |-> 0]]

\* the reply under failing notification INSERTs is the reply without the
\* failure, but for the notification rows that were not stored
SameButNotifications(failing, sound) ==
    /\ failing.res = sound.res
    /\ Primary(failing.db) = Primary(sound.db)
    /\ failing.db.notifications \sqsubseteq sound.db.notifications

\* the requests that fan out notifications, each answered from database d
FanOutReplies(d) ==
    LET Ps == {[id |-> u, role |-> InitUsers[u].role] : u \in DOMAIN InitUsers} IN
    [p \in Ps |->
        <<createTicket(d, p, [TicketFormBody(d, p, NULL, "Normale") EXCEPT !.assigned_to = 2]),
          assignTicket(d, p, IdString(1), 2),
          updateTicket(d, p, IdString(1),
                       [NoBody EXCEPT !.assigned_to = Undefined, !.status = "Résolu"]),
          addComment(d, p, IdString(1), [NoBody EXCEPT !.content = "first"]),
          createUser(d, p, [NoBody EXCEPT !.name = "Nadia", !.role = "employee"]),
          updateUser(d, p, IdString(3), [NoBody EXCEPT !.department_id = Undefined,
                                                       !.role = "it_personnel"]),
          deleteUser(d, p, IdString(4)),
          updateProfile(d, p, 2),
          deleteDepartment(d, p, IdString(4)),
          createEquipment(d, p, [NoBody EXCEPT !.name = "PC", !.status = "Disponible"])>>]

\* C17: while the INSERTs into notifications fail, every request that fans
\* out notifications is answered as it is without the failure and writes the
\* same rows to every other table; only notification rows are missing
NotificationsBestEffort ==
    db.fault.on =>
        LET failing == FanOutReplies(db)
            sound == FanOutReplies([db EXCEPT !.fault.on = FALSE])
        IN  \A p \in DOMAIN failing : \A i \in DOMAIN failing[p] :
                SameButNotifications(failing[p][i], sound[p][i])

\* a ticket was created and answered 201 while the INSERTs into notifications
\* failed: none of its recipients has a notification
NotificationsBestEffortWitness ==
    /\ req.op = "createTicket"
    /\ res.status = 201
    /\ db.fault.on
    /\ db.fault.after = 0
    /\ DOMAIN db.tickets # {}
    /\ TicketCreatedRecipients(db.users, db.tickets[1]) # {}
    /\ db.notifications = EmptyBag

\* ------------------------------------------------------- denial claims
\* the answers with which the handlers refuse a requester for who they are
Denials ==
    {"You can only create tickets for yourself",
     "Employees cannot be assigned to tickets",
     "You can only close tickets you created or are assigned to",
     "Employees cannot escalate tickets",
     "You can only delete your own tickets",
     "You can only edit your own comments",
     "You can only delete your own comments",
     "Cannot delete your own account",
     "Only admins can delete users",
     "Only admins can update users",
     "Only admins can delete departments"}

\* C18: every request refused for who the requester is, the deletion of
\* one's own account and the creation of a ticket for another user included,
\* is answered 403 and leaves the database unchanged
DenialsAreForbidden ==
    [][res'.error \in Denials => (res'.status = 403 /\ db' = db)]_vars

\* C19: in every reachable state each ticket is unassigned or assigned to a
\* user whose role is not employee
AssigneeNotEmployee ==
    \A t \in DOMAIN db.tickets :
        \/ db.tickets[t].assigned_to = NULL
        \/ /\ db.tickets[t].assigned_to \in DOMAIN db.users
           /\ db.users[db.tickets[t].assigned_to].role # "employee"

\* ------------------------------------------------- closing specification
\* PUT /api/tickets/:id with a status alone
PutTicketStatus ==
    \E p \in tokens, param \in TicketParams, status \in {"Fermé", "En cours"} :
        LET body == [NoBody EXCEPT !.assigned_to = Undefined, !.status = status]
        IN  Handle("updateTicket", p, SqlId(param), body, updateTicket(db, p, param, body))

NextClosing ==
    \/ SubmitTicket
    \/ CloseTicket
    \/ PutTicketStatus

SpecClosing == Init /\ [][NextClosing]_vars

\* C21: a ticket's status becomes 'Fermé' only by a request of an admin, of
\* the ticket's creator or of its assignee
ClosedOnlyByAuthorized ==
    [][\A t \in DOMAIN db.tickets \cap DOMAIN db'.tickets :
          (db.tickets[t].status # "Fermé" /\ db'.tickets[t].status = "Fermé")
             => CloseAuthorized(Principal(req'), db.tickets[t])]_vars

\* ------------------------------------------------- fan-out specification
NextFanOut ==
    \/ SubmitTicket
    \/ UpdateUser

SpecFanOut == Init /\ [][NextFanOut]_vars

\* the notification rows a request added
NewRows(d, reply) == reply.db.notifications (-) d.notifications

\* C22: a ticket creation stores no 'Nouveau ticket créé' row for the
\* creator, whatever the creator's role, and at most one for any other user,
\* whichever of the role and department conditions the user meets
TicketCreatedOnceNotCreator ==
    /\ \A p \in tokens : \A a \in {NULL, 2} : \A target \in {NULL, 1, 2} :
          LET body == [TicketFormBody(db, p, target, "Normale") EXCEPT !.assigned_to = a]
              r == createTicket(db, p, body)
              new == NewRows(db, r)
          IN  r.res.status = 201 =>
                \A row \in BagToSet(new) :
                    /\ row.title = "Nouveau ticket créé"
                    /\ row.user_id # p.id
                    /\ CopiesIn(row, new) = 1
    /\ \A c \in DOMAIN db.users : \A dep, target \in {NULL} \cup SeedDepartments :
          LET createdTicket == [created_by |-> c, department_id |-> dep,
                                target_department_id |-> target]
              recipients == SetToSeq(TicketCreatedRecipients(db.users, createdTicket))
          IN  /\ \A i \in DOMAIN recipients : recipients[i] # c
              /\ \A i, j \in DOMAIN recipients : recipients[i] = recipients[j] => i = j

\* an admin, in the department of another admin, created a ticket: the other
\* admin has one row and the creator none
TicketCreatedOnceNotCreatorWitness ==
    /\ req.op = "createTicket"
    /\ res.status = 201
    /\ req.user \in DOMAIN db.users
    /\ db.users[req.user].role = "admin"
    /\ \A n \in BagToSet(db.notifications) :
          n.title = "Nouveau ticket créé" => n.user_id # req.user
    /\ \E u \in DOMAIN db.users :
          /\ u # req.user
          /\ db.users[u].role = "admin"
          /\ db.users[u].department_id = db.users[req.user].department_id
          /\ CopiesIn(NotificationRow(u, "Nouveau ticket créé"), db.notifications) = 1

\* C23: a ticket update with a status adds exactly one 'Statut du ticket
\* modifié' row for each distinct non-null user among the updated ticket's
\* creator and assignee, and an update without a status adds no row
StatusChangedRouting ==
    [][(req'.op = "updateTicket" /\ res'.status = 200 /\ req'.id \in DOMAIN db'.tickets) =>
          LET t == db'.tickets[req'.id]
              R == {t.created_by, t.assigned_to} \ {NULL}
              new == db'.notifications (-) db.notifications
          IN  IF req'.body.status # ""
              THEN new = SetToBag({NotificationRow(u, "Statut du ticket modifié") : u \in R})
              ELSE new = EmptyBag]_vars

\* C24: adding a comment adds exactly one 'Nouveau commentaire' row for each
\* distinct non-null user among the ticket's creator and assignee other than
\* the comment's author
NewCommentRouting ==
    [][(req'.op = "addComment" /\ res'.status = 201) =>
          LET t == db.tickets[req'.id]
              R == ({t.created_by, t.assigned_to} \ {NULL}) \ {req'.user}
              new == db'.notifications (-) db.notifications
          IN  new = SetToBag({NotificationRow(u, "Nouveau commentaire") : u \in R})]_vars

\* C25: after a ticket creation either every computed recipient has its
\* 'Nouveau ticket créé' row, unread, or none has
FanOutAllOrNothing ==
    [][(req'.op = "createTicket" /\ res'.status = 201) =>
          LET R == UNION {TicketCreatedRecipients(db.users, db'.tickets[t]) : t \in res'.rows}
              new == db'.notifications (-) db.notifications
          IN  \/ new = SetToBag({NotificationRow(u, "Nouveau ticket créé") : u \in R})
              \/ new = EmptyBag]_vars

\* --------------------------------------------- stale token specification
\* tokens are verified by signature alone (authenticateToken): a token
\* issued before a role change stays in use
NextStaleTokens ==
    \/ SubmitTicket
    \/ UpdateUser
    \/ EscalateTicket

SpecStaleTokens == Init /\ [][NextStaleTokens]_vars

\* C26: a request is authorized against the stored role of its user at the
\* time of the request: no escalation succeeds for a user who is stored as
\* an employee, or who is not stored any more
AuthorizedByStoredRole ==
    [][(req'.op = "escalateTicket" /\ res'.status = 200) =>
          (req'.user \in DOMAIN db.users /\ db.users[req'.user].role # "employee")]_vars

\* ------------------------------------------------- reading specification
GetTicket ==
    \E p \in tokens, param \in TicketParams :
        Handle("getTicket", p, SqlId(param), NoBody, getTicket(db, p, param))

GetComments ==
    \E p \in tokens, param \in TicketParams :
        Handle("getComments", p, SqlId(param), NoBody, getComments(db, p, param))

NextReading ==
    \/ SubmitTicket
    \/ AddComment
    \/ GetTickets
    \/ GetTicket
    \/ GetComments

SpecReading == Init /\ [][NextReading]_vars

\* C27: the ticket list, the ticket by id and the comments of a ticket
\* return to an employee only tickets, and comments of tickets, that the
\* employee created
EmployeeReadsOwnTickets ==
    [][(req'.role = "employee" /\ res'.status = 200) =>
          /\ req'.op \in {"getTickets", "getTicket"} =>
                \A t \in res'.rows : db.tickets[t].created_by = req'.user
          /\ req'.op = "getComments" =>
                \A c \in res'.rows :
                    db.tickets[db.comments[c].ticket_id].created_by = req'.user]_vars

\* ------------------------------------------ department race specification
\* DELETE /api/departments/:id statement by statement: every await of
\* pool.execute lets the statements of other requests run in between

\* the step of the handler that answers: the request is over
Answer(reply) ==
    /\ Bounded(reply.db)
    /\ db' = reply.db
    /\ res' = reply.res
    /\ req' = Request("deleteDepartment", [id |-> inflight.user, role |-> inflight.role],
                      SqlId(inflight.param), NoBody)
    /\ inflight' = Idle
    /\ UNCHANGED <<tokens, clientVars>>

\* the step of the handler that goes on to its next statement
Continue(pc) ==
    /\ inflight' = [inflight EXCEPT !.pc = pc]
    /\ UNCHANGED <<db, tokens, req, res, clientVars>>

\* the request arrives with token p
DeleteDepartmentArrives ==
    /\ inflight.pc = "idle"
    /\ \E p \in tokens, param \in {IdString(4), IdString(5)} :
          inflight' = [pc |-> "arrived", user |-> p.id, role |-> p.role, param |-> param]
    /\ UNCHANGED <<db, tokens, req, res, clientVars>>

\* the role check and SELECT id FROM departments WHERE id = ?
DeleteDepartmentSelect ==
    /\ inflight.pc = "arrived"
    /\ IF inflight.role # "admin"
       THEN Answer(Reply(db, 403, "Only admins can delete departments", {}))
       ELSE IF SqlId(inflight.param) \notin db.departments
       THEN Answer(Reply(db, 404, "Department not found", {}))
       ELSE Continue("selected")

\* SELECT COUNT(*) as count FROM users WHERE department_id = ?
DeleteDepartmentCountUsers ==
    /\ inflight.pc = "selected"
    /\ IF UsersUsingDept(db, SqlId(inflight.param)) > 0
       THEN Answer(Reply(db, 400, "Cannot delete department that has users assigned to it", {}))
       ELSE Continue("users counted")

\* SELECT COUNT(*) as count FROM equipment WHERE department_id = ?
DeleteDepartmentCountEquipment ==
    /\ inflight.pc = "users counted"
    /\ IF EquipmentUsingDept(db, SqlId(inflight.param)) > 0
       THEN Answer(Reply(db, 400, "Cannot delete department that has equipment assigned to it", {}))
       ELSE Continue("equipment counted")

\* DELETE FROM departments WHERE id = ?, the notifications and the answer
DeleteDepartmentDelete ==
    /\ inflight.pc = "equipment counted"
    /\ LET deleted == DeleteDepartmentRow(db, SqlId(inflight.param))
           admins == SetToSeq({u \in DOMAIN deleted.users : deleted.users[u].role = "admin"})
       IN  Answer(Reply(createNotificationsForUsers(deleted, admins, "Département supprimé"),
                        200, "", {}))

NextDepartmentRace ==
    \/ UpdateProfile
    \/ DeleteDepartmentArrives
    \/ DeleteDepartmentSelect
    \/ DeleteDepartmentCountUsers
    \/ DeleteDepartmentCountEquipment
    \/ DeleteDepartmentDelete

SpecDepartmentRace == Init /\ [][NextDepartmentRace]_vars

\* C28: whatever runs between its statements, a delete-department request
\* answers 200 only if no user referenced the department when its row was
\* removed
DeleteDepartmentNeverStrandsUser ==
    [][(inflight.pc = "equipment counted" /\ inflight'.pc = "idle" /\ res'.status = 200) =>
          UsersUsingDept(db, SqlId(inflight.param)) = 0]_vars

\* --------------------------------------------------- inbox specification
\* an id that names no notification row
NoNotification == [user_id |-> NULL, title |-> "", read |-> FALSE]

\* the rows the :id of a notification request may name
NotificationParams == BagToSet(db.notifications) \cup {NoNotification}

GetNotifications ==
    \E p \in tokens : Handle("getNotifications", p, NULL, NoBody, getNotifications(db, p))

MarkNotificationRead ==
    \E p \in tokens, named \in NotificationParams :
        Handle("markNotificationRead", p, named, NoBody, markNotificationRead(db, p, named))

DeleteNotification ==
    \E p \in tokens, named \in NotificationParams :
        Handle("deleteNotification", p, named, NoBody, deleteNotification(db, p, named))

NextInbox ==
    \/ SubmitTicket
    \/ GetNotifications
    \/ MarkNotificationRead
    \/ DeleteNotification
    \/ DeleteUser

SpecInbox == Init /\ [][NextInbox]_vars

NotificationRequests == {"markNotificationRead", "deleteNotification"}

\* the step is a notification request of the recipient of row n that took
\* effect on n
ByRecipient(n) ==
    /\ req'.op \in NotificationRequests
    /\ res'.status = 200
    /\ req'.user = n.user_id
    /\ req'.id = n
    /\ req'.op = "markNotificationRead" =>
          (~n.read /\ CopiesIn([n EXCEPT !.read = TRUE], db'.notifications)
                         = CopiesIn([n EXCEPT !.read = TRUE], db.notifications) + 1)

\* the step is the deletion of the account of the recipient of row n
WithAccount(n) ==
    /\ req'.op = "deleteUser"
    /\ res'.status = 200
    /\ SqlId(req'.id) = n.user_id

\* the list returns only the requester's rows, and a notification request
\* that names a row of another user, or no row, answers 404 and changes nothing
OwnRowsOnly ==
    /\ req'.op = "getNotifications" => \A n \in res'.rows : n.user_id = req'.user
    /\ (req'.op \in NotificationRequests /\ req'.id.user_id # req'.user) =>
          (res'.status = 404 /\ db' = db)

\* C29 as amended: a notification row is listed only to its recipient; a
\* request that names another user's row answers 404 and changes nothing; a
\* row is marked read (never unread again) or removed only by a request of
\* its recipient, or removed with the recipient's account when that user is
\* deleted
NotificationOwnership ==
    [][/\ OwnRowsOnly
       /\ \A n \in BagToSet(db.notifications) :
             CopiesIn(n, db'.notifications) < CopiesIn(n, db.notifications) =>
                (ByRecipient(n) \/ WithAccount(n))]_vars

\* C29 as stated: a row is marked read or removed only by a request of its
\* recipient
NotificationOwnershipByRecipientOnly ==
    [][/\ OwnRowsOnly
       /\ \A n \in BagToSet(db.notifications) :
             CopiesIn(n, db'.notifications) < CopiesIn(n, db.notifications) =>
                ByRecipient(n)]_vars

\* a user asked to mark an unread row of another user as read and was
\* answered 404, the row still there and unread
NotificationOwnershipWitness ==
    /\ req.op = "markNotificationRead"
    /\ res.status = 404
    /\ req.id \in BagToSet(db.notifications)
    /\ req.id.user_id # req.user
    /\ ~req.id.read
    /\ \E n \in BagToSet(db.notifications) : n.read

\* ------------------------------------- notification reducer specification
\* Math.max(0, n)
Max0(n) == IF n > 0 THEN n ELSE 0

\* state.notifications.find(n => n.id === id): the matches, the found one first
Find(notifications, id) == SelectSeq(notifications, LAMBDA n : n.id = id)

\* notificationReducer
notificationReducer(state, action) ==
    IF action.type = "ADD_NOTIFICATION"
    THEN [state EXCEPT
             !.notifications = Append(@, [action.payload EXCEPT !.read = FALSE]),
             !.unreadCount = @ + 1]
    ELSE IF action.type = "REMOVE_NOTIFICATION"
    THEN LET notificationToRemove == Find(state.notifications, action.payload)
             wasUnread == notificationToRemove # <<>> /\ ~Head(notificationToRemove).read
         IN  [state EXCEPT
                 !.notifications = SelectSeq(@, LAMBDA n : n.id # action.payload),
                 !.unreadCount = IF wasUnread THEN Max0(@ - 1) ELSE @]
    ELSE IF action.type = "MARK_AS_READ"
    THEN [state EXCEPT
             !.notifications = [i \in DOMAIN @ |->
                                   IF @[i].id = action.payload
                                   THEN [@[i] EXCEPT !.read = TRUE] ELSE @[i]],
             !.unreadCount = Max0(@ - 1)]
    ELSE IF action.type = "MARK_ALL_AS_READ"
    THEN [state EXCEPT
             !.notifications = [i \in DOMAIN @ |-> [@[i] EXCEPT !.read = TRUE]],
             !.unreadCount = 0]
    ELSE IF action.type = "CLEAR_ALL"
    THEN [state EXCEPT !.notifications = <<>>, !.unreadCount = 0]
    ELSE IF action.type = "TOGGLE_MUTE"
    THEN [state EXCEPT !.isMuted = ~@]
    ELSE state

\* what a dispatch to the reducer leaves alone
notReducerVars ==
    <<db, tokens, req, res, inflight, currentUser, stateUsers, selectedUsers,
      showBulkDeleteModal, isDeleting, bulkTodo, bulkVisited, consoleErrors, shown>>

\* the ids of Math.random().toString(36): one that no listed notification has
NotificationIds == 1..MaxShown

AddNotification ==
    \E id \in NotificationIds, read \in BOOLEAN :
        /\ Len(notificationState.notifications) < MaxShown
        /\ \A i \in DOMAIN notificationState.notifications :
              notificationState.notifications[i].id # id
        /\ notificationState' =
              notificationReducer(notificationState,
                  [type |-> "ADD_NOTIFICATION", payload |-> [id |-> id, read |-> read]])
        /\ UNCHANGED notReducerVars

RemoveNotification ==
    \E id \in NotificationIds :
        /\ notificationState' =
              notificationReducer(notificationState,
                                  [type |-> "REMOVE_NOTIFICATION", payload |-> id])
        /\ UNCHANGED notReducerVars

MarkAsRead ==
    \E id \in NotificationIds :
        /\ notificationState' =
              notificationReducer(notificationState, [type |-> "MARK_AS_READ", payload |-> id])
        /\ UNCHANGED notReducerVars

MarkAllAsRead ==
    /\ notificationState' = notificationReducer(notificationState, [type |-> "MARK_ALL_AS_READ"])
    /\ UNCHANGED notReducerVars

ClearAll ==
    /\ notificationState' = notificationReducer(notificationState, [type |-> "CLEAR_ALL"])
    /\ UNCHANGED notReducerVars

ToggleMute ==
    /\ notificationState' = notificationReducer(notificationState, [type |-> "TOGGLE_MUTE"])
    /\ UNCHANGED notReducerVars

NextReducer ==
    \/ AddNotification
    \/ RemoveNotification
    \/ MarkAsRead
    \/ MarkAllAsRead
    \/ ClearAll
    \/ ToggleMute

SpecReducer == Init /\ [][NextReducer]_vars

\* C30: unreadCount is the number of listed notifications that are unread,
\* and is never negative
UnreadCountIsUnread ==
    /\ notificationState.unreadCount >= 0
    /\ notificationState.unreadCount =
          Cardinality({i \in DOMAIN notificationState.notifications :
                          ~notificationState.notifications[i].read})

====
